---- MODULE Spec2Model ----
(***************************************************************************)
(* Model of change.py: ChangeStreamTester.run_all_tests and the two        *)
(* scenarios it runs against a change-event source.                        *)
(*                                                                         *)
(* The event source (the MongoDB/DocumentDB collection reached through     *)
(* pymongo) is the environment of the program.  It is modelled as an       *)
(* append-only log; a stream is a position in that log; a resume token is  *)
(* a position together with the time of the event it marks, and a token    *)
(* is retained for `retention` seconds.  Time advances only in             *)
(* time.sleep (change.py:88).                                              *)
(***************************************************************************)
EXTENDS Integers, Sequences, FiniteSets, TLC

\* ---- bounds of the model ------------------------------------------------
MaxIter == 2
MaxRetention == 2
MaxDuration == 2

VARIABLES
  pc,                      \* position of the single control flow
  iterations,              \* parameter of test_resume_token_persistence
  disconnect_duration,     \* parameter of test_stream_durability
  retention,               \* retention window of the event source, seconds
  source,                  \* the event source: "conforming", or breaking
                           \* its contract: "redelivers" | "drops"
  now,                     \* wall clock, seconds
  log,                     \* the event source: appended events, in order
  stream,                  \* the four stream handles the program creates
  i,                       \* loop counter of the insert loops
  initial_resume_token,    \* change.py:28
  last_resume_token,       \* change.py:43
  resume_token,            \* change.py:84
  events,                  \* change.py:37
  new_events,              \* change.py:54
  pre_disconnect_events,   \* change.py:79
  post_disconnect_events,  \* change.py:95
  resultA,                 \* value returned by test_resume_token_persistence
  resultB,                 \* value returned by test_stream_durability
  results,                 \* change.py:121, the dict run_all_tests returns
  reported,                \* change.py:131-132 ran
  escaped                  \* the exception that left run_all_tests, if any

vars == <<pc, iterations, disconnect_duration, retention, source, now, log,
          stream, i, initial_resume_token, last_resume_token, resume_token,
          events, new_events, pre_disconnect_events, post_disconnect_events,
          resultA, resultB, results, reported, escaped>>

\* ---- values -------------------------------------------------------------
Handles == {"A.change_stream", "A.resumed_stream",
            "B.change_stream", "B.resumed_stream"}

NoToken == [pos |-> -1, at |-> -1]
NoStream == [st |-> "none", pos |-> -1, at |-> -1]
NoResult == [none |-> TRUE]
NoError == "none"

\* ---- the event source (environment) ------------------------------------
\* collection.watch(): a stream "from now", positioned after the last event
Watch == [st |-> "open", pos |-> Len(log), at |-> now]

\* collection.watch(resume_after=tok): a stream positioned at the token
WatchResume(tok) == [st |-> "open", pos |-> tok.pos, at |-> tok.at]

\* the token is no longer retained: older than the retention window
TooOld(tok) == now - tok.at > retention

\* the token is certainly retained: younger than the retention window
Retained(tok) == now - tok.at < retention

\* ChangeStream.resume_token: the position after the last delivered event,
\* or the position the stream was opened at
ResumeToken(s) == [pos |-> s.pos, at |-> s.at]

\* ChangeStream.close()
Close(s) == [s EXCEPT !.st = "closed"]

\* the documents the program inserts
TestDoc(n) == [field |-> "test", tag |-> "", n |-> n]            \* change.py:33
ResumedDoc(n) == [field |-> "test", tag |-> "resumed", n |-> n]  \* change.py:56
PreDoc == [field |-> "phase", tag |-> "pre-disconnect", n |-> 0]   \* change.py:76
PostDoc == [field |-> "phase", tag |-> "post-disconnect", n |-> 0] \* change.py:93

\* collection.insert_one(doc): the event is appended to the log
InsertOne(doc) == Append(log, [doc |-> doc, at |-> now])

\* the events the source may hand to stream s on its next pull.  A
\* conforming source hands out the event after the stream's position; one
\* that redelivers may also hand out the event at the stream's position
\* (the one the token marks) once more.
Offered(s) ==
  IF s.st # "open" THEN {}
  ELSE {k \in 1..Len(log) : k = s.pos + 1}
       \cup (IF source = "redelivers" THEN {k \in 1..Len(log) : k = s.pos} ELSE {})

\* the stream after it delivered event k
Delivered(s, k) ==
  IF k > s.pos THEN [s EXCEPT !.pos = k, !.at = log[k].at] ELSE s

\* ---- pieces of the program ----------------------------------------------
\* the change is put in front of the buffer instead of behind it
Buffer_Prepend(buf, k) == <<k>> \o buf

\* change.py:39, :59, :81, :97 events.append(change)
Buffer(buf, k) == Append(buf, k)

\* the loop asks for one event more than requested
Enough_Strict(buf, n) == Len(buf) > n

\* change.py:40, :60 if len(events) >= iterations: break
Enough(buf, n) == Len(buf) >= n

\* the token read before the collection (change.py:28) is used instead
A_LastToken_Initial == initial_resume_token

\* change.py:43 last_resume_token = change_stream.resume_token
A_LastToken == ResumeToken(stream["A.change_stream"])

\* the token is read before the collection loop instead of after it
B_Token_Early ==
  [pos |-> stream["B.change_stream"].pos - Len(pre_disconnect_events),
   at |-> stream["B.change_stream"].at]

\* change.py:84 resume_token = change_stream.resume_token
B_Token == ResumeToken(stream["B.change_stream"])

\* the disconnect is not simulated: no time passes
Sleep_Skipped == now

\* change.py:88 time.sleep(disconnect_duration)
Sleep == now + disconnect_duration

\* success asks for more events than the loop collects
PersistenceResult_Strict(ev, nev, n) ==
  [initial_events |-> Len(ev), resumed_events |-> Len(nev),
   success |-> (Len(nev) > n)]

\* change.py:65-69
PersistenceResult(ev, nev, n) ==
  [initial_events |-> Len(ev), resumed_events |-> Len(nev),
   success |-> (Len(nev) = n)]

\* change.py:102-106
DurabilityResult(pre, post) ==
  [pre_disconnect_events |-> Len(pre), post_disconnect_events |-> Len(post),
   success |-> (Len(post) > 0)]

\* the failure result forgets the events collected before the fault
DurabilityFailure_NoPre(pre, e) ==
  [pre_disconnect_events |-> 0, post_disconnect_events |-> 0,
   success |-> FALSE, error |-> e]

\* change.py:108-115
DurabilityFailure(pre, e) ==
  [pre_disconnect_events |-> Len(pre), post_disconnect_events |-> 0,
   success |-> FALSE, error |-> e]

\* ---- initial state ------------------------------------------------------
InitCommon ==
  /\ pc = "setup"
  /\ iterations \in 0..MaxIter
  /\ disconnect_duration \in 0..MaxDuration
  /\ retention \in 0..MaxRetention
  /\ now = 0
  /\ log = <<>>
  /\ stream = [h \in Handles |-> NoStream]
  /\ i = 0
  /\ initial_resume_token = NoToken
  /\ last_resume_token = NoToken
  /\ resume_token = NoToken
  /\ events = <<>>
  /\ new_events = <<>>
  /\ pre_disconnect_events = <<>>
  /\ post_disconnect_events = <<>>
  /\ resultA = NoResult
  /\ resultB = NoResult
  /\ results = NoResult
  /\ reported = FALSE
  /\ escaped = NoError

Init == InitCommon /\ source = "conforming"

InitU == InitCommon /\ source \in {"conforming", "redelivers", "drops"}

\* an exception leaves run_all_tests: nothing is returned or logged
Raise(e) ==
  /\ escaped' = e
  /\ pc' = "crashed"

\* ---- run_all_tests: setup ----------------------------------------------
\* change.py:119, 15-22
Setup ==
  /\ pc = "setup"
  /\ pc' = "A_open"
  /\ UNCHANGED <<iterations, disconnect_duration, retention, source, now, log,
                 stream, i, initial_resume_token, last_resume_token,
                 resume_token, events, new_events, pre_disconnect_events,
                 post_disconnect_events, resultA, resultB, results, reported,
                 escaped>>

\* the setup failure is swallowed and the run goes on
SetupFails_Swallowed ==
  /\ pc = "setup"
  /\ escaped' = "SetupError"
  /\ pc' = "A_open"
  /\ UNCHANGED <<iterations, disconnect_duration, retention, source, now, log,
                 stream, i, initial_resume_token, last_resume_token,
                 resume_token, events, new_events, pre_disconnect_events,
                 post_disconnect_events, resultA, resultB, results, reported>>

\* change.py:18 or :21 raises: the source is unreachable
SetupFails ==
  /\ pc = "setup"
  /\ Raise("SetupError")
  /\ UNCHANGED <<iterations, disconnect_duration, retention, source, now, log,
                 stream, i, initial_resume_token, last_resume_token,
                 resume_token, events, new_events, pre_disconnect_events,
                 post_disconnect_events, resultA, resultB, results, reported>>

\* ---- Scenario A: test_resume_token_persistence --------------------------
\* change.py:27-29
A_Open ==
  /\ pc = "A_open"
  /\ stream' = [stream EXCEPT !["A.change_stream"] = Watch]
  /\ initial_resume_token' = ResumeToken(Watch)
  /\ i' = 0
  /\ pc' = IF iterations > 0 THEN "A_insert" ELSE "A_collect"
  /\ UNCHANGED <<iterations, disconnect_duration, retention, source, now, log,
                 last_resume_token, resume_token, events, new_events,
                 pre_disconnect_events, post_disconnect_events, resultA,
                 resultB, results, reported, escaped>>

\* change.py:32-34, one turn of the loop
A_Insert ==
  /\ pc = "A_insert"
  /\ log' = InsertOne(TestDoc(i))
  /\ i' = i + 1
  /\ pc' = IF i + 1 < iterations THEN "A_insert" ELSE "A_collect"
  /\ UNCHANGED <<iterations, disconnect_duration, retention, source, now,
                 stream, initial_resume_token, last_resume_token, resume_token,
                 events, new_events, pre_disconnect_events,
                 post_disconnect_events, resultA, resultB, results, reported,
                 escaped>>

\* change.py:38-41, one turn of the loop: blocks until the source offers
\* an event
A_Collect ==
  /\ pc = "A_collect"
  /\ \E k \in Offered(stream["A.change_stream"]) :
       /\ events' = Buffer(events, k)
       /\ stream' = [stream EXCEPT !["A.change_stream"] = Delivered(@, k)]
       /\ pc' = IF Enough(events', iterations) THEN "A_capture" ELSE "A_collect"
  /\ UNCHANGED <<iterations, disconnect_duration, retention, source, now, log,
                 i, initial_resume_token, last_resume_token, resume_token,
                 new_events, pre_disconnect_events, post_disconnect_events,
                 resultA, resultB, results, reported, escaped>>

\* change.py:43
A_Capture ==
  /\ pc = "A_capture"
  /\ last_resume_token' = A_LastToken
  /\ pc' = "A_close"
  /\ UNCHANGED <<iterations, disconnect_duration, retention, source, now, log,
                 stream, i, initial_resume_token, resume_token, events,
                 new_events, pre_disconnect_events, post_disconnect_events,
                 resultA, resultB, results, reported, escaped>>

\* the first handle is left open when the stream is resumed
A_Close_Skipped ==
  /\ pc = "A_close"
  /\ pc' = "A_resume"
  /\ UNCHANGED <<iterations, disconnect_duration, retention, source, now, log,
                 stream, i, initial_resume_token, last_resume_token,
                 resume_token, events, new_events, pre_disconnect_events,
                 post_disconnect_events, resultA, resultB, results, reported,
                 escaped>>

\* change.py:44-47
A_Close ==
  /\ pc = "A_close"
  /\ stream' = [stream EXCEPT !["A.change_stream"] = Close(@)]
  /\ pc' = "A_resume"
  /\ UNCHANGED <<iterations, disconnect_duration, retention, source, now, log,
                 i, initial_resume_token, last_resume_token, resume_token,
                 events, new_events, pre_disconnect_events,
                 post_disconnect_events, resultA, resultB, results, reported,
                 escaped>>

\* change.py:50-54, the token is still retained
A_Resume ==
  /\ pc = "A_resume"
  /\ ~TooOld(last_resume_token)
  /\ stream' = [stream EXCEPT !["A.resumed_stream"] = WatchResume(last_resume_token)]
  /\ new_events' = <<>>
  /\ i' = 0
  /\ pc' = IF iterations > 0 THEN "A_insert2" ELSE "A_collect2"
  /\ UNCHANGED <<iterations, disconnect_duration, retention, source, now, log,
                 initial_resume_token, last_resume_token, resume_token, events,
                 pre_disconnect_events, post_disconnect_events, resultA,
                 resultB, results, reported, escaped>>

\* change.py:50 raises: the token is no longer retained.  Nothing in
\* test_resume_token_persistence or run_all_tests catches it.
A_ResumeFails ==
  /\ pc = "A_resume"
  /\ ~Retained(last_resume_token)
  /\ Raise("ResumeError")
  /\ UNCHANGED <<iterations, disconnect_duration, retention, source, now, log,
                 stream, i, initial_resume_token, last_resume_token,
                 resume_token, events, new_events, pre_disconnect_events,
                 post_disconnect_events, resultA, resultB, results, reported>>

\* change.py:55-56, one turn of the loop
A_Insert2 ==
  /\ pc = "A_insert2"
  /\ log' = InsertOne(ResumedDoc(i))
  /\ i' = i + 1
  /\ pc' = IF i + 1 < iterations THEN "A_insert2" ELSE "A_collect2"
  /\ UNCHANGED <<iterations, disconnect_duration, retention, source, now,
                 stream, initial_resume_token, last_resume_token, resume_token,
                 events, new_events, pre_disconnect_events,
                 post_disconnect_events, resultA, resultB, results, reported,
                 escaped>>

\* change.py:58-61, one turn of the loop
A_Collect2 ==
  /\ pc = "A_collect2"
  /\ \E k \in Offered(stream["A.resumed_stream"]) :
       /\ new_events' = Buffer(new_events, k)
       /\ stream' = [stream EXCEPT !["A.resumed_stream"] = Delivered(@, k)]
       /\ pc' = IF Enough(new_events', iterations) THEN "A_return" ELSE "A_collect2"
  /\ UNCHANGED <<iterations, disconnect_duration, retention, source, now, log,
                 i, initial_resume_token, last_resume_token, resume_token,
                 events, pre_disconnect_events, post_disconnect_events,
                 resultA, resultB, results, reported, escaped>>

\* change.py:63-69
A_Return ==
  /\ pc = "A_return"
  /\ stream' = [stream EXCEPT !["A.resumed_stream"] = Close(@)]
  /\ resultA' = PersistenceResult(events, new_events, iterations)
  /\ pc' = "B_open"
  /\ UNCHANGED <<iterations, disconnect_duration, retention, source, now, log,
                 i, initial_resume_token, last_resume_token, resume_token,
                 events, new_events, pre_disconnect_events,
                 post_disconnect_events, resultB, results, reported, escaped>>

\* change.py:33, :38, :56, :58, :76 or :80 raises (insert_one or the pull
\* from the stream fails): outside any try block, the exception leaves
\* the scenario and run_all_tests
Unguarded == {"A_insert", "A_collect", "A_insert2", "A_collect2",
              "B_insert", "B_collect"}

CallRaises ==
  /\ pc \in Unguarded
  /\ Raise("OperationFailure")
  /\ UNCHANGED <<iterations, disconnect_duration, retention, source, now, log,
                 stream, i, initial_resume_token, last_resume_token,
                 resume_token, events, new_events, pre_disconnect_events,
                 post_disconnect_events, resultA, resultB, results, reported>>

\* ---- Scenario B: test_stream_durability ---------------------------------
\* the stream of Scenario B is opened at the token left by Scenario A
\* instead of "from now"
B_Open_AtLastToken ==
  /\ pc = "B_open"
  /\ stream' = [stream EXCEPT !["B.change_stream"] = WatchResume(last_resume_token)]
  /\ pc' = "B_insert"
  /\ UNCHANGED <<iterations, disconnect_duration, retention, source, now, log,
                 i, initial_resume_token, last_resume_token, resume_token,
                 events, new_events, pre_disconnect_events,
                 post_disconnect_events, resultA, resultB, results, reported,
                 escaped>>

\* change.py:73
B_Open ==
  /\ pc = "B_open"
  /\ stream' = [stream EXCEPT !["B.change_stream"] = Watch]
  /\ pc' = "B_insert"
  /\ UNCHANGED <<iterations, disconnect_duration, retention, source, now, log,
                 i, initial_resume_token, last_resume_token, resume_token,
                 events, new_events, pre_disconnect_events,
                 post_disconnect_events, resultA, resultB, results, reported,
                 escaped>>

\* change.py:76-79
B_Insert ==
  /\ pc = "B_insert"
  /\ log' = InsertOne(PreDoc)
  /\ pre_disconnect_events' = <<>>
  /\ pc' = "B_collect"
  /\ UNCHANGED <<iterations, disconnect_duration, retention, source, now,
                 stream, i, initial_resume_token, last_resume_token,
                 resume_token, events, new_events, post_disconnect_events,
                 resultA, resultB, results, reported, escaped>>

\* change.py:80-82: blocks until the source offers an event
B_Collect ==
  /\ pc = "B_collect"
  /\ \E k \in Offered(stream["B.change_stream"]) :
       /\ pre_disconnect_events' = Buffer(pre_disconnect_events, k)
       /\ stream' = [stream EXCEPT !["B.change_stream"] = Delivered(@, k)]
  /\ pc' = "B_capture"
  /\ UNCHANGED <<iterations, disconnect_duration, retention, source, now, log,
                 i, initial_resume_token, last_resume_token, resume_token,
                 events, new_events, post_disconnect_events, resultA, resultB,
                 results, reported, escaped>>

\* change.py:84
B_Capture ==
  /\ pc = "B_capture"
  /\ resume_token' = B_Token
  /\ pc' = "B_close"
  /\ UNCHANGED <<iterations, disconnect_duration, retention, source, now, log,
                 stream, i, initial_resume_token, last_resume_token, events,
                 new_events, pre_disconnect_events, post_disconnect_events,
                 resultA, resultB, results, reported, escaped>>

\* change.py:85-87
B_Close ==
  /\ pc = "B_close"
  /\ stream' = [stream EXCEPT !["B.change_stream"] = Close(@)]
  /\ pc' = "B_sleep"
  /\ UNCHANGED <<iterations, disconnect_duration, retention, source, now, log,
                 i, initial_resume_token, last_resume_token, resume_token,
                 events, new_events, pre_disconnect_events,
                 post_disconnect_events, resultA, resultB, results, reported,
                 escaped>>

\* the "post-disconnect" document is inserted during the wait, before the
\* reopen
B_Sleep_Inserts ==
  /\ pc = "B_sleep"
  /\ now' = Sleep
  /\ log' = InsertOne(PostDoc)
  /\ pc' = "B_resume"
  /\ UNCHANGED <<iterations, disconnect_duration, retention, source,
                 stream, i, initial_resume_token, last_resume_token,
                 resume_token, events, new_events, pre_disconnect_events,
                 post_disconnect_events, resultA, resultB, results, reported,
                 escaped>>

\* change.py:88
B_Sleep ==
  /\ pc = "B_sleep"
  /\ now' = Sleep
  /\ pc' = "B_resume"
  /\ UNCHANGED <<iterations, disconnect_duration, retention, source, log,
                 stream, i, initial_resume_token, last_resume_token,
                 resume_token, events, new_events, pre_disconnect_events,
                 post_disconnect_events, resultA, resultB, results, reported,
                 escaped>>

\* change.py:92, the token is still retained
B_Resume ==
  /\ pc = "B_resume"
  /\ ~TooOld(resume_token)
  /\ stream' = [stream EXCEPT !["B.resumed_stream"] = WatchResume(resume_token)]
  /\ pc' = "B_insert2"
  /\ UNCHANGED <<iterations, disconnect_duration, retention, source, now, log,
                 i, initial_resume_token, last_resume_token, resume_token,
                 events, new_events, pre_disconnect_events,
                 post_disconnect_events, resultA, resultB, results, reported,
                 escaped>>

\* change.py:92 raises, change.py:108-115 returns the failure result
B_ResumeFails ==
  /\ pc = "B_resume"
  /\ ~Retained(resume_token)
  /\ resultB' = DurabilityFailure(pre_disconnect_events, "ResumeError")
  /\ pc' = "gather"
  /\ UNCHANGED <<iterations, disconnect_duration, retention, source, now, log,
                 stream, i, initial_resume_token, last_resume_token,
                 resume_token, events, new_events, pre_disconnect_events,
                 post_disconnect_events, resultA, results, reported, escaped>>

\* change.py:93-95
B_Insert2 ==
  /\ pc = "B_insert2"
  /\ log' = InsertOne(PostDoc)
  /\ post_disconnect_events' = <<>>
  /\ pc' = "B_collect2"
  /\ UNCHANGED <<iterations, disconnect_duration, retention, source, now,
                 stream, i, initial_resume_token, last_resume_token,
                 resume_token, events, new_events, pre_disconnect_events,
                 resultA, resultB, results, reported, escaped>>

\* change.py:96-98
B_Collect2 ==
  /\ pc = "B_collect2"
  /\ \E k \in Offered(stream["B.resumed_stream"]) :
       /\ post_disconnect_events' = Buffer(post_disconnect_events, k)
       /\ stream' = [stream EXCEPT !["B.resumed_stream"] = Delivered(@, k)]
  /\ pc' = "B_return"
  /\ UNCHANGED <<iterations, disconnect_duration, retention, source, now, log,
                 i, initial_resume_token, last_resume_token, resume_token,
                 events, new_events, pre_disconnect_events, resultA, resultB,
                 results, reported, escaped>>

\* change.py:93 or :96 raises inside the try block, change.py:108-115
\* returns the failure result; resumed_stream.close() (:100) is skipped
B_CallRaises ==
  /\ pc \in {"B_insert2", "B_collect2"}
  /\ resultB' = DurabilityFailure(pre_disconnect_events, "OperationFailure")
  /\ pc' = "gather"
  /\ UNCHANGED <<iterations, disconnect_duration, retention, source, now, log,
                 stream, i, initial_resume_token, last_resume_token,
                 resume_token, events, new_events, pre_disconnect_events,
                 post_disconnect_events, resultA, results, reported, escaped>>

\* change.py:100-106
B_Return ==
  /\ pc = "B_return"
  /\ stream' = [stream EXCEPT !["B.resumed_stream"] = Close(@)]
  /\ resultB' = DurabilityResult(pre_disconnect_events, post_disconnect_events)
  /\ pc' = "gather"
  /\ UNCHANGED <<iterations, disconnect_duration, retention, source, now, log,
                 i, initial_resume_token, last_resume_token, resume_token,
                 events, new_events, pre_disconnect_events,
                 post_disconnect_events, resultA, results, reported, escaped>>

\* ---- run_all_tests: the results -----------------------------------------
\* change.py:121-126
Gather ==
  /\ pc = "gather"
  /\ results' = [resume_token_test |-> resultA, durability_test |-> resultB]
  /\ pc' = "report"
  /\ UNCHANGED <<iterations, disconnect_duration, retention, source, now, log,
                 stream, i, initial_resume_token, last_resume_token,
                 resume_token, events, new_events, pre_disconnect_events,
                 post_disconnect_events, resultA, resultB, reported, escaped>>

\* change.py:130-132
Report ==
  /\ pc = "report"
  /\ reported' = TRUE
  /\ pc' = "done"
  /\ UNCHANGED <<iterations, disconnect_duration, retention, source, now, log,
                 stream, i, initial_resume_token, last_resume_token,
                 resume_token, events, new_events, pre_disconnect_events,
                 post_disconnect_events, resultA, resultB, results, escaped>>

\* ---- an event source that breaks its contract ---------------------------
\* the source silently drops the event an open stream is waiting for
SourceDrops ==
  /\ source = "drops"
  /\ \E h \in Handles :
       /\ stream[h].st = "open"
       /\ stream[h].pos < Len(log)
       /\ stream' = [stream EXCEPT ![h].pos = @ + 1]
  /\ UNCHANGED <<pc, iterations, disconnect_duration, retention, source, now,
                 log, i, initial_resume_token, last_resume_token, resume_token,
                 events, new_events, pre_disconnect_events,
                 post_disconnect_events, resultA, resultB, results, reported,
                 escaped>>

\* ---- specifications -----------------------------------------------------
ScenarioA == A_Open \/ A_Insert \/ A_Collect \/ A_Capture \/ A_Close \/ A_Resume
             \/ A_ResumeFails \/ A_Insert2 \/ A_Collect2 \/ A_Return

ScenarioB == B_Open \/ B_Insert \/ B_Collect \/ B_Capture \/ B_Close \/ B_Sleep
             \/ B_Resume \/ B_ResumeFails \/ B_Insert2 \/ B_Collect2
             \/ B_CallRaises \/ B_Return

Next == Setup \/ SetupFails \/ ScenarioA \/ ScenarioB \/ CallRaises
        \/ Gather \/ Report

NextU == Next \/ SourceDrops

\* the event source honours its contract
Spec == Init /\ [][Next]_vars

\* the event source may break its contract
SpecU == InitU /\ [][NextU]_vars

\* the steps of the control flow other than an insert or a pull raising
Progress == Setup \/ SetupFails \/ ScenarioA \/ B_Open \/ B_Insert
            \/ B_Collect \/ B_Capture \/ B_Close \/ B_Sleep \/ B_Resume
            \/ B_ResumeFails
            \/ B_Insert2 \/ B_Collect2 \/ B_Return \/ Gather \/ Report

\* the single control flow goes on whenever it can: a call that can return
\* does return and a pull for which an event is there delivers it.  An
\* insert or a pull may raise, but nothing makes it: a pull waiting on a
\* stream with no event may wait for ever.
FairSpec == Spec /\ WF_vars(Progress)

\* ---- properties ---------------------------------------------------------
Last(seq) == seq[Len(seq)]

NoRepeat(seq) == \A a, b \in DOMAIN seq : a # b => seq[a] # seq[b]

Consecutive(seq) == \A j \in 1..(Len(seq) - 1) : seq[j + 1] = seq[j] + 1

Buffers == {events, new_events, pre_disconnect_events, post_disconnect_events}

\* C1 (no-gap resume): with a source that honours its contract, the first
\* event the resumed stream delivers is the one appended right after the
\* last event collected before the token was captured: in Scenario A the
\* first post-resume append, K = iterations events after the position the
\* first stream was opened at; in Scenario B the "post-disconnect" append
\* right after the one event collected.  It is never the K-th event again
\* and never the (K+2)-th.
C1_NoGapResume ==
  /\ Len(new_events) >= 1 =>
       /\ Len(events) = iterations
       /\ new_events[1] = initial_resume_token.pos + iterations + 1
       /\ new_events[1] = Last(events) + 1
       /\ log[new_events[1]].doc = ResumedDoc(0)
  /\ Len(post_disconnect_events) >= 1 =>
       /\ Len(pre_disconnect_events) = 1
       /\ post_disconnect_events[1] = Last(pre_disconnect_events) + 1
       /\ log[post_disconnect_events[1]].doc = PostDoc

\* both scenarios resumed and collected, Scenario A with K = 2
C1_Witness ==
  /\ Len(events) = 2
  /\ Len(new_events) = 2
  /\ Len(post_disconnect_events) = 1

\* C2 (no duplication): with a source that honours its contract, the events
\* of the first collection and of the resumed collection together contain
\* no sequence marker twice, in Scenario A and in Scenario B.
C2_NoDuplication ==
  /\ NoRepeat(events \o new_events)
  /\ NoRepeat(pre_disconnect_events \o post_disconnect_events)
  /\ \A a \in DOMAIN new_events : \A b \in DOMAIN events : new_events[a] # events[b]

\* Scenario A returned after two collections of two events each
C2_Witness ==
  /\ pc = "B_open"
  /\ Len(events) = 2
  /\ Len(new_events) = 2

\* C3 (order preservation): with a source that honours its contract, what a
\* single stream has delivered and the collector has buffered is in append
\* order, each event the successor of the one before it.
C3_OrderPreserved == \A buf \in Buffers : Consecutive(buf)

\* a stream delivered two events
C3_Witness ==
  /\ Len(new_events) = 2
  /\ new_events[2] > new_events[1]

\* the resumed collection is exactly the `iterations` post-resume appends,
\* in append order
ExactlyPostResume ==
  /\ Len(new_events) = iterations
  /\ \A j \in 1..iterations : log[new_events[j]].doc = ResumedDoc(j - 1)

\* C4 (Scenario A verdict): whenever test_resume_token_persistence has
\* returned, success is true exactly if the resumed collection has
\* `iterations` events, shares no event with the initial collection and is
\* exactly the post-resume appends in append order.
C4_VerdictA ==
  resultA # NoResult =>
    (resultA.success <=>
       /\ Len(new_events) = iterations
       /\ \A a \in DOMAIN new_events : \A b \in DOMAIN events : new_events[a] # events[b]
       /\ ExactlyPostResume)

\* C5 (Scenario B verdict): whenever test_stream_durability has returned,
\* success is true exactly if an event was collected from the resumed
\* stream and that event is the "post-disconnect" document.
C5_VerdictB ==
  resultB # NoResult =>
    (resultB.success <=>
       /\ Len(post_disconnect_events) > 0
       /\ log[post_disconnect_events[1]].doc = PostDoc)

\* C6 (resume failure is data in Scenario B): when the reopen at the
\* captured token fails, test_stream_durability returns success = false
\* with the error, post-disconnect count 0 and pre-disconnect count 1; the
\* exception does not leave the scenario and no "post-disconnect" document
\* has been appended.
C6_ResumeFailureIsData ==
  /\ ("error" \in DOMAIN resultB /\ resultB.error = "ResumeError") =>
       /\ resultB.success = FALSE
       /\ resultB.post_disconnect_events = 0
       /\ resultB.pre_disconnect_events = 1
       /\ Len(pre_disconnect_events) = 1
       /\ escaped = NoError
       /\ pc \in {"gather", "report", "done"}
       /\ stream["B.resumed_stream"].st = "none"
       /\ \A k \in DOMAIN log : log[k].doc # PostDoc
  /\ (escaped = "ResumeError") => stream["B.change_stream"].st = "none"

\* the reopen of Scenario B failed and the failure result was gathered
C6_Witness ==
  /\ pc = "done"
  /\ "error" \in DOMAIN results.durability_test
  /\ results.durability_test.error = "ResumeError"

\* C7 (every scenario yields a result): a ResumeError or ClosedError raised
\* inside a scenario never leaves run_all_tests as an exception.
C7_ErrorsBecomeResults == escaped \notin {"ResumeError", "ClosedError"}

\* the stream the collection loop at pc pulls from
CollectingFrom ==
  CASE pc = "A_collect" -> "A.change_stream"
    [] pc = "A_collect2" -> "A.resumed_stream"
    [] pc = "B_collect" -> "B.change_stream"
    [] pc = "B_collect2" -> "B.resumed_stream"

CollectPcs == {"A_collect", "A_collect2", "B_collect", "B_collect2"}

\* what the collection loop at pc has buffered, and how many it asked for
Collected ==
  CASE pc = "A_collect" -> Len(events)
    [] pc = "A_collect2" -> Len(new_events)
    [] pc = "B_collect" -> Len(pre_disconnect_events)
    [] pc = "B_collect2" -> Len(post_disconnect_events)

Requested == IF pc \in {"A_collect", "A_collect2"} THEN iterations ELSE 1

\* the collection loop has M < count events and the source has no more for it
Starved ==
  /\ pc \in CollectPcs
  /\ Collected < Requested
  /\ Offered(stream[CollectingFrom]) = {}

\* the steps by which a collection loop goes on or ends without an error
Collector == A_Collect \/ A_Collect2 \/ B_Collect \/ B_Collect2

\* C8 (partial collection): a collection loop that has fewer events
\* available than it asked for can still go on: it ends with what it has,
\* without an error, instead of waiting for ever.
C8_PartialCollectionEnds == Starved => ENABLED Collector

\* Scenario B went past the reopen
B_Reopened == stream["B.resumed_stream"].st # "none"

\* Scenario B returned the ResumeError as its result
B_ResumeErrorResult == "error" \in DOMAIN resultB /\ resultB.error = "ResumeError"

\* C9 (disconnect recovery): in Scenario B the reopen at the captured token
\* succeeds, and cannot fail, when disconnect_duration is below the
\* retention window, and fails with ResumeError, and cannot succeed, when
\* disconnect_duration exceeds it, whatever `iterations` was and however
\* many events were appended before.
C9_DisconnectRecovery ==
  /\ (pc = "B_resume" /\ disconnect_duration < retention) =>
       (ENABLED B_Resume /\ ~ENABLED B_ResumeFails)
  /\ (pc = "B_resume" /\ disconnect_duration > retention) =>
       (ENABLED B_ResumeFails /\ ~ENABLED B_Resume)
  /\ B_Reopened => disconnect_duration <= retention
  /\ B_ResumeErrorResult => disconnect_duration >= retention

\* Scenario B failed to reopen after a disconnect longer than the retention
\* window, after a Scenario A that appended four events
C9_Witness ==
  /\ B_ResumeErrorResult
  /\ disconnect_duration > retention
  /\ iterations = 2

ScenarioBStarted == stream["B.change_stream"].st # "none"

\* C10 (run ordering, all-or-nothing report): nothing is appended or opened
\* before setup completed, and nothing at all after a setup failure;
\* Scenario B starts only after Scenario A returned its result; the results
\* are gathered and reported only when both scenario results exist.
C10_RunOrdering ==
  /\ (pc = "setup" \/ escaped = "SetupError") =>
       /\ log = <<>>
       /\ \A h \in Handles : stream[h].st = "none"
       /\ resultA = NoResult /\ resultB = NoResult
  /\ escaped = "SetupError" => pc = "crashed"
  /\ ScenarioBStarted => (resultA # NoResult /\ stream["A.resumed_stream"].st = "closed")
  /\ resultB # NoResult => resultA # NoResult
  /\ results # NoResult =>
       /\ results.resume_token_test = resultA /\ resultA # NoResult
       /\ results.durability_test = resultB /\ resultB # NoResult
  /\ reported => results # NoResult

\* both results were reported together
C10_Witness ==
  /\ reported
  /\ results.resume_token_test # NoResult
  /\ results.durability_test # NoResult

\* a call failed: an exception left run_all_tests, or Scenario B returned
\* its failure result
Faulted == escaped # NoError \/ "error" \in DOMAIN resultB

\* Scenario A returned success with exactly the post-resume appends
A_Verified ==
  /\ resultA # NoResult
  /\ resultA.success
  /\ resultA.initial_events = iterations
  /\ resultA.resumed_events = iterations
  /\ ExactlyPostResume

\* Scenario B returned success with exactly the one post-disconnect event
B_Verified ==
  /\ resultB # NoResult
  /\ resultB.success
  /\ resultB.post_disconnect_events = 1
  /\ Len(post_disconnect_events) = 1
  /\ log[post_disconnect_events[1]].doc = PostDoc

\* C11 (successful-run liveness): for iterations >= 1, with a source that
\* honours its contract and a control flow that goes on whenever it can,
\* Scenario A eventually returns success with exactly the post-resume
\* appends in order and Scenario B eventually returns success with exactly
\* one post-disconnect event, unless a call failed (setup, a reopen at an
\* expired token, an insert or a pull).
C11_SuccessfulRunLiveness ==
  /\ (iterations >= 1) ~> (A_Verified \/ Faulted)
  /\ (iterations >= 1) ~> ((A_Verified /\ B_Verified) \/ Faulted)

\* both scenarios verified in a run with iterations = 2 and no failure
C11_Witness ==
  /\ pc = "done"
  /\ iterations = 2
  /\ A_Verified
  /\ B_Verified
  /\ ~Faulted

\* between the close and the end of the reopen attempt
Disconnected == pc \in {"B_sleep", "B_resume"}

\* C12 (disconnect step ordering and frame): in Scenario B the token is
\* captured when the one pre-disconnect event is collected and the handle
\* is still open; the handle is closed before the wait begins; from the
\* close to the reopen attempt no stream is open and no step appends to the
\* log or pulls an event, and the wait itself touches no stream; the
\* "post-disconnect" document is appended only once the reopen succeeded.
C12_DisconnectFrame ==
  /\ [][resume_token' # resume_token =>
          /\ Len(pre_disconnect_events) = 1
          /\ stream["B.change_stream"].st = "open"
          /\ resume_token' = ResumeToken(stream["B.change_stream"])]_vars
  /\ [](pc = "B_close" => (resume_token # NoToken /\ stream["B.change_stream"].st = "open"))
  /\ [](Disconnected =>
          /\ \A h \in Handles : stream[h].st # "open"
          /\ stream["B.change_stream"].st = "closed"
          /\ resume_token # NoToken)
  /\ [][Disconnected =>
          /\ log' = log
          /\ pre_disconnect_events' = pre_disconnect_events
          /\ post_disconnect_events' = post_disconnect_events
          /\ (pc = "B_sleep" => stream' = stream)]_vars
  /\ [][(log' # log /\ Last(log').doc = PostDoc) =>
          (pc = "B_insert2" /\ stream["B.resumed_stream"].st = "open")]_vars

\* the wait of two seconds is over and the reopen is about to be attempted
C12_Witness ==
  /\ pc = "B_resume"
  /\ disconnect_duration = 2
  /\ now = 2
  /\ resume_token # NoToken

\* C13 (token monotonicity per handle): with a source that honours its
\* contract, the token of an open handle never goes backwards from one
\* step to the next; on the first handle of Scenario A the token read
\* before any delivery (change.py:28) is the position the handle was opened
\* at, and the token read after collecting (change.py:43) marks the last
\* delivered event and is not older than the first one.
C13_TokenMonotonic ==
  /\ [][\A h \in Handles :
          (stream[h].st = "open" /\ stream'[h].st = "open") =>
            /\ ResumeToken(stream'[h]).pos >= ResumeToken(stream[h]).pos
            /\ ResumeToken(stream'[h]).at >= ResumeToken(stream[h]).at]_vars
  /\ [](stream["A.change_stream"].st = "open" =>
          /\ stream["A.change_stream"].pos = initial_resume_token.pos + Len(events)
          /\ (events = <<>> => ResumeToken(stream["A.change_stream"]) = initial_resume_token))
  /\ [](last_resume_token # NoToken =>
          /\ last_resume_token.pos = Last(events)
          /\ last_resume_token.pos >= initial_resume_token.pos
          /\ last_resume_token.at >= initial_resume_token.at
          /\ last_resume_token = ResumeToken(stream["A.change_stream"]))

\* both tokens of the first handle were read, two events apart
C13_Witness ==
  /\ last_resume_token # NoToken
  /\ last_resume_token.pos = initial_resume_token.pos + 2

OpenHandles == {h \in Handles : stream[h].st = "open"}

\* C14 (handle lifecycle): a handle goes from not created to open to closed
\* and a closed handle never changes again (it is not reopened and nothing
\* is pulled from it); a token is read, and an event is pulled, only from
\* an open handle; each resumption opens the other, new handle at the last
\* captured token after the first one was closed; at most one handle is
\* open at any time.
C14_HandleLifecycle ==
  /\ [][\A h \in Handles :
          /\ stream[h].st = "closed" => stream'[h] = stream[h]
          /\ stream[h].st = "open" => stream'[h].st \in {"open", "closed"}
          /\ stream[h].st = "none" => stream'[h].st \in {"none", "open"}]_vars
  /\ [][/\ initial_resume_token' # initial_resume_token =>
             stream'["A.change_stream"].st = "open"
        /\ last_resume_token' # last_resume_token =>
             stream["A.change_stream"].st = "open"
        /\ resume_token' # resume_token =>
             stream["B.change_stream"].st = "open"]_vars
  /\ [][/\ events' # events => stream["A.change_stream"].st = "open"
        /\ (new_events' # new_events /\ new_events' # <<>>) =>
             stream["A.resumed_stream"].st = "open"
        /\ (pre_disconnect_events' # pre_disconnect_events
              /\ pre_disconnect_events' # <<>>) =>
             stream["B.change_stream"].st = "open"
        /\ (post_disconnect_events' # post_disconnect_events
              /\ post_disconnect_events' # <<>>) =>
             stream["B.resumed_stream"].st = "open"]_vars
  /\ [][/\ (stream["A.resumed_stream"].st = "none"
              /\ stream'["A.resumed_stream"].st = "open") =>
             /\ stream["A.change_stream"].st = "closed"
             /\ ResumeToken(stream'["A.resumed_stream"]) = last_resume_token
        /\ (stream["B.resumed_stream"].st = "none"
              /\ stream'["B.resumed_stream"].st = "open") =>
             /\ stream["B.change_stream"].st = "closed"
             /\ ResumeToken(stream'["B.resumed_stream"]) = resume_token]_vars
  /\ [](Cardinality(OpenHandles) <= 1)

\* Scenario A resumed: the first handle is closed, the new one is open
C14_Witness ==
  /\ stream["A.change_stream"].st = "closed"
  /\ stream["A.resumed_stream"].st = "open"
  /\ Len(new_events) = 1

\* C15 (no leaked handle): once a scenario has returned its result, success
\* or failure, none of the handles it opened is still open.
C15_NoLeakedHandle ==
  /\ resultA # NoResult =>
       (stream["A.change_stream"].st # "open" /\ stream["A.resumed_stream"].st # "open")
  /\ resultB # NoResult =>
       (stream["B.change_stream"].st # "open" /\ stream["B.resumed_stream"].st # "open")

\* C16 (scenario isolation): with a source that honours its contract, when
\* Scenario B has opened its stream the log holds the 2 * iterations
\* documents of Scenario A, all before the position that stream was opened
\* at, and the one event Scenario B collects before the disconnect is its
\* own "pre-disconnect" document, appended right after that position.
C16_ScenarioIsolation ==
  /\ ScenarioBStarted =>
       /\ Len(log) >= 2 * iterations
       /\ \A k \in 1..Len(log) :
            (k <= 2 * iterations) <=> (log[k].doc.field = "test")
       /\ stream["B.change_stream"].pos >= 2 * iterations
  /\ pc = "B_insert" => stream["B.change_stream"].pos = 2 * iterations
  /\ Len(pre_disconnect_events) >= 1 =>
       /\ log[pre_disconnect_events[1]].doc = PreDoc
       /\ pre_disconnect_events[1] = 2 * iterations + 1

\* Scenario B collected its event after a Scenario A of four appends
C16_Witness ==
  /\ Len(pre_disconnect_events) = 1
  /\ iterations = 2
  /\ Len(events) = 2

\* C17 (Scenario A cannot report failure): for iterations >= 1, whatever
\* the source does, once test_resume_token_persistence has returned a
\* result both collections hold exactly `iterations` events and success is
\* true.
C17_ScenarioANeverFails ==
  (iterations >= 1 /\ resultA # NoResult) =>
    /\ resultA.success
    /\ resultA.initial_events = iterations
    /\ resultA.resumed_events = iterations
    /\ Len(events) = iterations
    /\ Len(new_events) = iterations

\* Scenario A returned after collecting two and two events
C17_Witness ==
  /\ resultA # NoResult
  /\ iterations = 2
  /\ resultA.resumed_events = 2
====
